---- MODULE Spec2Model ----
(***************************************************************************)
(* Model of yarpc-go's transport interceptor chaining                      *)
(* (transport/interceptor.go) and of the crossdock behavior recorder       *)
(* (crossdock/client/behavior.go).                                         *)
(*                                                                         *)
(* Handlers and interceptors are values.  A call of Handler.Handle is      *)
(* executed frame by frame on a per-caller call stack, so that calls of    *)
(* several callers interleave.                                             *)
(***************************************************************************)
EXTENDS Integers, Sequences, FiniteSets, TLC

VARIABLES base, applied, chain,
          status, target, args, stack, result, log,
          Failed, Skipped, Entries, behaviors, calls

tvars == <<base, applied, chain, status, target, args, stack, result, log>>
bvars == <<Failed, Skipped, Entries, behaviors, calls>>
vars == <<base, applied, chain, status, target, args, stack, result, log,
          Failed, Skipped, Entries, behaviors, calls>>

\* ------------------------------------------------------------------ bounds
\* Number of ApplyInterceptor calls made while the chain is set up, when one
\* caller uses the chain.
MaxDepth == 3
\* The same, when several callers use the chain concurrently.
ConcDepth == 1
\* Number of concurrent callers of the composed handler.
NumCallers == 2
\* Number of distinct request markers.
NumReqs == 2
\* Number of entries recorded with one BehaviorTester.
MaxEntries == 3
\* Number of behaviors created from the tester.
MaxBehaviors == 2

Callers == 1..NumCallers
Reqs == 1..NumReqs

\* ------------------------------------------------------------------ values
\* The nil Handler and the nil Interceptor (Go nil interface values).
NilHandler == [kind |-> "nil"]
NilInterceptor == [kind |-> "nil"]

\* The terminal handler H: an opaque Handler implementation.
H == [kind |-> "H"]

\* var NopInterceptor Interceptor = nopInterceptor{}
NopInterceptor == [kind |-> "nop"]

\* InterceptorFunc values: the functions an application adapts into
\* interceptors.  "pass" calls next once and logs entry and exit, "short"
\* never calls next, "twice" calls next twice and returns the second result.
PassThrough(id) == [kind |-> "pass", id |-> id]
ShortCircuit == [kind |-> "short"]
Twice == [kind |-> "twice"]

I1 == PassThrough(1)
I2 == PassThrough(2)

Interceptors == {NilInterceptor, NopInterceptor, I1, I2, ShortCircuit, Twice}

\* The errors a Handle call returns: nil, an error of H, the error the
\* short-circuiting interceptor synthesizes.
NoError == "nil"
ErrHandler == "errHandler"
ErrShort == "errShort"
HResults == {NoError, ErrHandler}

\* The outcome of a call that ended in a nil dereference panic.
Panic == "panic"

\* Faulty variant: the new interceptor is put innermost, next to the handler.
RECURSIVE ApplyInterceptorInnermost(_, _)
ApplyInterceptorInnermost(h, i) ==
    IF i = NilInterceptor
      THEN h
      ELSE IF h.kind = "intercepted"
             THEN [kind |-> "intercepted", h |-> ApplyInterceptorInnermost(h.h, i), i |-> h.i]
             ELSE [kind |-> "intercepted", h |-> h, i |-> i]

\* Faulty variant: no nil check, a nil interceptor is wrapped like any other.
ApplyInterceptorNoNilCheck(h, i) == [kind |-> "intercepted", h |-> h, i |-> i]

\* Faulty variant: the nil check is inverted.
ApplyInterceptorInverted(h, i) ==
    IF i # NilInterceptor
      THEN h
      ELSE [kind |-> "intercepted", h |-> h, i |-> i]

\* func ApplyInterceptor(h Handler, i Interceptor) Handler
ApplyInterceptor(h, i) ==
    IF i = NilInterceptor
      THEN h
      ELSE [kind |-> "intercepted", h |-> h, i |-> i]

\* ------------------------------------------------------------------ frames
HandleFrame(h, a) == [fn |-> "Handler.Handle", h |-> h, a |-> a, pc |-> "entry", rv |-> NoError]
InterceptFrame(i, a, next) ==
    [fn |-> "Interceptor.Handle", i |-> i, a |-> a, next |-> next, pc |-> "entry", rv |-> NoError]

\* Faulty variant: the request is kept in a place all calls share, so a call
\* picks up the arguments of the latest caller still running.
interceptedHandlerHandleShared(h, a) ==
    LET running == {t \in DOMAIN status : status[t] = "running"}
        latest == CHOOSE t \in running : \A u \in running : u <= t
    IN  [fn |-> "Interceptor.Handle", i |-> h.i, a |-> args[latest], next |-> h.h,
         pc |-> "entry", rv |-> "nil"]

\* Faulty variant: the inner handler is called directly, past the interceptor.
interceptedHandlerHandleBypass(h, a) ==
    [fn |-> "Handler.Handle", h |-> h.h, a |-> a, pc |-> "entry", rv |-> "nil"]

\* Faulty variant: the request is not handed on.
interceptedHandlerHandleDropReq(h, a) ==
    [fn |-> "Interceptor.Handle", i |-> h.i, a |-> [a EXCEPT !.req = 0], next |-> h.h,
     pc |-> "entry", rv |-> "nil"]

\* func (h interceptedHandler) Handle(ctx, req, resw) error:
\* the call it makes, h.i.Handle(ctx, req, resw, h.h) ...
interceptedHandlerHandle(h, a) == InterceptFrame(h.i, a, h.h)
\* Faulty variant: the interceptor's error is discarded.
interceptedHandlerReturnNil(rv) == "nil"

\* ... and the value it returns, given the value that call returned.
interceptedHandlerReturn(rv) == rv

\* func (nopInterceptor) Handle(ctx, req, resw, handler) error:
\* the call it makes, handler.Handle(ctx, req, resw) ...
nopInterceptorHandle(a, handler) == HandleFrame(handler, a)
\* Faulty variant: the handler's error is discarded.
nopInterceptorReturnNil(rv) == "nil"

\* ... and the value it returns, given the value that call returned.
nopInterceptorReturn(rv) == rv

Top(t) == stack[t][Len(stack[t])]
Running(t) == status[t] = "running" /\ Len(stack[t]) > 0
AtTop(t, fn, pc) == Running(t) /\ Top(t).fn = fn /\ Top(t).pc = pc

\* The stack after the top frame made the call `callee` and waits for it.
Push(st, pc, callee) ==
    [st EXCEPT ![Len(st)].pc = pc] \o <<callee>>

\* The stack after the top frame returned rv to the frame below it.
Pop(st, rv) ==
    IF Len(st) = 1
      THEN << >>
      ELSE [SubSeq(st, 1, Len(st) - 1) EXCEPT
              ![Len(st) - 1].rv = rv,
              ![Len(st) - 1].pc = IF @ = "wait1" THEN "ret1" ELSE "ret"]

\* The top frame of caller t returns rv.
ReturnValue(t, rv) ==
    /\ stack' = [stack EXCEPT ![t] = Pop(stack[t], rv)]
    /\ IF Len(stack[t]) = 1
         THEN /\ status' = [status EXCEPT ![t] = "returned"]
              /\ result' = [result EXCEPT ![t] = rv]
         ELSE UNCHANGED <<status, result>>

\* ------------------------------------------------------------------ setup
\* One ApplyInterceptor call of the setup code: chain = ApplyInterceptor(chain, i).
Apply(i, depth) ==
    /\ \A t \in Callers : status[t] = "idle"
    /\ Len(applied) < depth
    /\ chain' = ApplyInterceptor(chain, i)
    /\ applied' = Append(applied, i)
    /\ UNCHANGED <<base, status, target, args, stack, result, log>>
    /\ UNCHANGED bvars

\* ------------------------------------------------------------------ calls
\* Caller t calls chain.Handle(ctx, req, resw) with its own context and
\* response writer and request marker r.
Call(t, r) ==
    /\ status[t] = "idle"
    /\ LET a == [ctx |-> t, req |-> r, resw |-> t] IN
         /\ args' = [args EXCEPT ![t] = a]
         /\ target' = [target EXCEPT ![t] = chain]
         /\ stack' = [stack EXCEPT ![t] = <<HandleFrame(chain, a)>>]
    /\ status' = [status EXCEPT ![t] = "running"]
    /\ UNCHANGED <<base, applied, chain, result, log>>
    /\ UNCHANGED bvars

\* A method call on a nil Handler or nil Interceptor panics; nothing in the
\* package recovers, so the whole call ends.
NilDeref(t) ==
    /\ \/ AtTop(t, "Handler.Handle", "entry") /\ Top(t).h = NilHandler
       \/ AtTop(t, "Interceptor.Handle", "entry") /\ Top(t).i = NilInterceptor
    /\ stack' = [stack EXCEPT ![t] = << >>]
    /\ status' = [status EXCEPT ![t] = "panicked"]
    /\ result' = [result EXCEPT ![t] = Panic]
    /\ UNCHANGED <<base, applied, chain, target, args, log>>
    /\ UNCHANGED bvars

\* The terminal handler runs: it is observed with its arguments and returns
\* a value of its own choice.
HHandle(t, res) ==
    /\ AtTop(t, "Handler.Handle", "entry")
    /\ Top(t).h = H
    /\ log' = [log EXCEPT ![t] = Append(@, [ev |-> "H", id |-> 0, a |-> Top(t).a, res |-> res])]
    /\ ReturnValue(t, res)
    /\ UNCHANGED <<base, applied, chain, target, args>>
    /\ UNCHANGED bvars

\* interceptedHandler.Handle: calls h.i.Handle(ctx, req, resw, h.h).
InterceptedHandle(t) ==
    /\ AtTop(t, "Handler.Handle", "entry")
    /\ Top(t).h.kind = "intercepted"
    /\ stack' = [stack EXCEPT ![t] = Push(@, "wait", interceptedHandlerHandle(Top(t).h, Top(t).a))]
    /\ UNCHANGED <<base, applied, chain, status, target, args, result, log>>
    /\ UNCHANGED bvars

\* interceptedHandler.Handle: returns what h.i.Handle returned.
InterceptedReturn(t) ==
    /\ AtTop(t, "Handler.Handle", "ret")
    /\ ReturnValue(t, interceptedHandlerReturn(Top(t).rv))
    /\ UNCHANGED <<base, applied, chain, target, args, log>>
    /\ UNCHANGED bvars

\* nopInterceptor.Handle: calls handler.Handle(ctx, req, resw).
NopHandle(t) ==
    /\ AtTop(t, "Interceptor.Handle", "entry")
    /\ Top(t).i = NopInterceptor
    /\ stack' = [stack EXCEPT ![t] = Push(@, "wait", nopInterceptorHandle(Top(t).a, Top(t).next))]
    /\ UNCHANGED <<base, applied, chain, status, target, args, result, log>>
    /\ UNCHANGED bvars

\* nopInterceptor.Handle: returns what handler.Handle returned.
NopReturn(t) ==
    /\ AtTop(t, "Interceptor.Handle", "ret")
    /\ Top(t).i = NopInterceptor
    /\ ReturnValue(t, nopInterceptorReturn(Top(t).rv))
    /\ UNCHANGED <<base, applied, chain, target, args, log>>
    /\ UNCHANGED bvars

\* A pass-through InterceptorFunc: records its entry and calls next.
PassEnter(t) ==
    /\ AtTop(t, "Interceptor.Handle", "entry")
    /\ Top(t).i.kind = "pass"
    /\ log' = [log EXCEPT ![t] = Append(@, [ev |-> "enter", id |-> Top(t).i.id, a |-> Top(t).a, res |-> NoError])]
    /\ stack' = [stack EXCEPT ![t] = Push(@, "wait", HandleFrame(Top(t).next, Top(t).a))]
    /\ UNCHANGED <<base, applied, chain, status, target, args, result>>
    /\ UNCHANGED bvars

\* A pass-through InterceptorFunc: records its exit and returns next's result.
PassExit(t) ==
    /\ AtTop(t, "Interceptor.Handle", "ret")
    /\ Top(t).i.kind = "pass"
    /\ log' = [log EXCEPT ![t] = Append(@, [ev |-> "exit", id |-> Top(t).i.id, a |-> Top(t).a, res |-> Top(t).rv])]
    /\ ReturnValue(t, Top(t).rv)
    /\ UNCHANGED <<base, applied, chain, target, args>>
    /\ UNCHANGED bvars

\* A short-circuiting InterceptorFunc: returns its own error, never calls next.
ShortHandle(t) ==
    /\ AtTop(t, "Interceptor.Handle", "entry")
    /\ Top(t).i = ShortCircuit
    /\ ReturnValue(t, ErrShort)
    /\ UNCHANGED <<base, applied, chain, target, args, log>>
    /\ UNCHANGED bvars

\* A retrying InterceptorFunc: first call of next.
TwiceFirst(t) ==
    /\ AtTop(t, "Interceptor.Handle", "entry")
    /\ Top(t).i = Twice
    /\ stack' = [stack EXCEPT ![t] = Push(@, "wait1", HandleFrame(Top(t).next, Top(t).a))]
    /\ UNCHANGED <<base, applied, chain, status, target, args, result, log>>
    /\ UNCHANGED bvars

\* A retrying InterceptorFunc: second call of next, with the same arguments.
TwiceSecond(t) ==
    /\ AtTop(t, "Interceptor.Handle", "ret1")
    /\ Top(t).i = Twice
    /\ stack' = [stack EXCEPT ![t] = Push(@, "wait", HandleFrame(Top(t).next, Top(t).a))]
    /\ UNCHANGED <<base, applied, chain, status, target, args, result, log>>
    /\ UNCHANGED bvars

\* A retrying InterceptorFunc: returns the result of the second call.
TwiceReturn(t) ==
    /\ AtTop(t, "Interceptor.Handle", "ret")
    /\ Top(t).i = Twice
    /\ ReturnValue(t, Top(t).rv)
    /\ UNCHANGED <<base, applied, chain, target, args, log>>
    /\ UNCHANGED bvars

\* --------------------------------------------------------------- behaviors
\* const ( Passed Status = "passed"; Skipped = "skipped"; Failed = "failed" )
StatusPassed == "passed"
StatusSkipped == "skipped"
StatusFailed == "failed"

\* Strings are sequences of tokens; "%v" is a formatting verb.
Verb == "%v"
Missing == "%!v(MISSING)"
Extra == "%!(EXTRA)"
Msgs == {<<"a">>, <<"b">>}
Formats == {<<"a", Verb>>, <<Verb, Verb>>}
ArgLists == {<< >>, <<"b">>}

\* fmt.Sprintf(format, args...): every verb is replaced by the next operand,
\* a verb without operand and operands without verb are reported in the text.
RECURSIVE Sprintf(_, _)
Sprintf(format, as) ==
    IF format = << >>
      THEN IF as = << >> THEN << >> ELSE <<Extra>>
      ELSE IF Head(format) = Verb
             THEN IF as = << >>
                    THEN <<Missing>> \o Sprintf(Tail(format), as)
                    ELSE <<Head(as)>> \o Sprintf(Tail(format), Tail(as))
             ELSE <<Head(format)>> \o Sprintf(Tail(format), as)

\* type BasicEntry struct { Status Status; Output string }
\* func (b basicEntryBuilder) Skip(reason string) interface{}
basicEntryBuilderSkip(reason) == [Status |-> StatusSkipped, Output |-> reason]
\* func (b basicEntryBuilder) Fail(message string) interface{}
basicEntryBuilderFail(message) == [Status |-> StatusFailed, Output |-> message]
\* func (b basicEntryBuilder) Pass(output string) interface{}
basicEntryBuilderPass(output) == [Status |-> StatusPassed, Output |-> output]

\* var BasicEntryBuilder EntryBuilder = basicEntryBuilder{}
BasicEntryBuilder == "basicEntryBuilder"

\* Faulty variant: the new entry replaces the entries recorded so far.
putEntryOverwrite(entry, st) ==
    /\ Failed' = IF st = StatusFailed THEN TRUE ELSE Failed
    /\ Skipped' = IF st = StatusSkipped THEN TRUE ELSE Skipped
    /\ Entries' = <<entry>>

\* Faulty variant: the flags follow the latest entry instead of being sticky.
putEntryNotSticky(entry, st) ==
    /\ Failed' = (st = StatusFailed)
    /\ Skipped' = (st = StatusSkipped)
    /\ Entries' = Append(Entries, entry)

\* func (bt *BehaviorTester) putEntry(entry interface{}, status Status)
putEntry(entry, st) ==
    /\ Failed' = IF st = StatusFailed THEN TRUE ELSE Failed
    /\ Skipped' = IF st = StatusSkipped THEN TRUE ELSE Skipped
    /\ Entries' = Append(Entries, entry)

\* The record of one Skip, Fail or Pass call, in call order.
Called(op, out) == calls' = Append(calls, [op |-> op, out |-> out])

\* func (bt *BehaviorTester) NewBehavior(builder EntryBuilder) Behavior
NewBehavior(builder) ==
    /\ Len(behaviors) < MaxBehaviors
    /\ behaviors' = Append(behaviors, [Tester |-> "bt", Builder |-> builder])
    /\ UNCHANGED <<Failed, Skipped, Entries, calls>>
    /\ UNCHANGED tvars

\* func (b behavior) Skip(reason string)
Skip(b, reason) ==
    /\ Len(Entries) < MaxEntries
    /\ b \in DOMAIN behaviors
    /\ putEntry(basicEntryBuilderSkip(reason), StatusSkipped)
    /\ Called("Skip", reason)
    /\ UNCHANGED behaviors
    /\ UNCHANGED tvars

\* func (b behavior) Fail(message string)
Fail(b, message) ==
    /\ Len(Entries) < MaxEntries
    /\ b \in DOMAIN behaviors
    /\ putEntry(basicEntryBuilderFail(message), StatusFailed)
    /\ Called("Fail", message)
    /\ UNCHANGED behaviors
    /\ UNCHANGED tvars

\* func (b behavior) Pass(output string)
Pass(b, output) ==
    /\ Len(Entries) < MaxEntries
    /\ b \in DOMAIN behaviors
    /\ putEntry(basicEntryBuilderPass(output), StatusPassed)
    /\ Called("Pass", output)
    /\ UNCHANGED behaviors
    /\ UNCHANGED tvars

\* func (b behavior) Skipf(format string, args ...interface{})
Skipf(b, format, as) == Skip(b, Sprintf(format, as))
\* func (b behavior) Failf(format string, args ...interface{})
Failf(b, format, as) == Fail(b, Sprintf(format, as))
\* func (b behavior) Passf(format string, args ...interface{})
Passf(b, format, as) == Pass(b, Sprintf(format, as))

\* ------------------------------------------------------------------ spec
NoArgs == [ctx |-> 0, req |-> 0, resw |-> 0]

TInit ==
    /\ base \in {NilHandler, H}
    /\ chain = base
    /\ applied = << >>
    /\ status = [t \in Callers |-> "idle"]
    /\ target = [t \in Callers |-> NilHandler]
    /\ args = [t \in Callers |-> NoArgs]
    /\ stack = [t \in Callers |-> << >>]
    /\ result = [t \in Callers |-> NoError]
    /\ log = [t \in Callers |-> << >>]

BInit ==
    /\ Failed = FALSE
    /\ Skipped = FALSE
    /\ Entries = << >>
    /\ behaviors = << >>
    /\ calls = << >>

Init == TInit /\ BInit


\* A chain of up to MaxDepth interceptors, called by one caller.
Next ==
    \/ \E i \in Interceptors : Apply(i, MaxDepth)
    \/ \E r \in Reqs : Call(1, r)
    \/ NilDeref(1)
    \/ \E res \in HResults : HHandle(1, res)
    \/ InterceptedHandle(1)
    \/ InterceptedReturn(1)
    \/ NopHandle(1)
    \/ NopReturn(1)
    \/ PassEnter(1)
    \/ PassExit(1)
    \/ ShortHandle(1)
    \/ TwiceFirst(1)
    \/ TwiceSecond(1)
    \/ TwiceReturn(1)

Spec == Init /\ [][Next]_vars

\* A chain of up to ConcDepth interceptors, called concurrently by
\* NumCallers callers, each with a request of its own.
NextConc ==
    \/ \E i \in Interceptors : Apply(i, ConcDepth)
    \/ \E t \in Callers : Call(t, t)
    \/ \E t \in Callers : NilDeref(t)
    \/ \E t \in Callers, res \in HResults : HHandle(t, res)
    \/ \E t \in Callers : InterceptedHandle(t)
    \/ \E t \in Callers : InterceptedReturn(t)
    \/ \E t \in Callers : NopHandle(t)
    \/ \E t \in Callers : NopReturn(t)
    \/ \E t \in Callers : PassEnter(t)
    \/ \E t \in Callers : PassExit(t)
    \/ \E t \in Callers : ShortHandle(t)
    \/ \E t \in Callers : TwiceFirst(t)
    \/ \E t \in Callers : TwiceSecond(t)
    \/ \E t \in Callers : TwiceReturn(t)

SpecConc == Init /\ [][NextConc]_vars

\* The behavior recorder of one BehaviorTester.
NextBT ==
    \/ NewBehavior(BasicEntryBuilder)
    \/ \E b \in 1..MaxBehaviors, m \in Msgs : Skip(b, m)
    \/ \E b \in 1..MaxBehaviors, m \in Msgs : Fail(b, m)
    \/ \E b \in 1..MaxBehaviors, m \in Msgs : Pass(b, m)
    \/ \E b \in 1..MaxBehaviors, f \in Formats, as \in ArgLists : Skipf(b, f, as)
    \/ \E b \in 1..MaxBehaviors, f \in Formats, as \in ArgLists : Failf(b, f, as)
    \/ \E b \in 1..MaxBehaviors, f \in Formats, as \in ArgLists : Passf(b, f, as)

SpecBT == Init /\ [][NextBT]_vars

\* ----------------------------------------------------------------- helpers
Range(f) == {f[k] : k \in DOMAIN f}
Last(seq) == seq[Len(seq)]
IsH(e) == e.ev = "H"
\* The invocations of H observed during caller t's call.
HEvents(t) == SelectSeq(log[t], IsH)
\* The names of the events observed during caller t's call.
Names(t) == [k \in DOMAIN log[t] |-> <<log[t][k].ev, log[t][k].id>>]
IsPrefix(p, q) == Len(p) <= Len(q) /\ \A k \in DOMAIN p : p[k] = q[k]
Over(t) == status[t] \in {"returned", "panicked"}
PassOrder == << <<"enter", 1>>, <<"enter", 2>>, <<"H", 0>>, <<"exit", 2>>, <<"exit", 1>> >>

TypeOK ==
    /\ \A t \in Callers : status[t] \in {"idle", "running", "returned", "panicked"}
    /\ Len(applied) <= MaxDepth
    /\ Len(Entries) <= MaxEntries
    /\ Failed \in BOOLEAN /\ Skipped \in BOOLEAN

\* ------------------------------------------------------------------ claims

\* C1: the chain ApplyInterceptor(ApplyInterceptor(H, I2), I1) of two
\* pass-through interceptors produces, on one Handle call, exactly the events
\* I1-enter, I2-enter, H, I2-exit, I1-exit: at every moment of the call the
\* events seen so far are a prefix of that sequence, and the whole sequence
\* once the call has returned.
C1_PassThroughOrder ==
    (base = H /\ applied = <<I2, I1>> /\ status[1] # "idle")
      => /\ IsPrefix(Names(1), PassOrder)
         /\ status[1] # "panicked"
         /\ status[1] = "returned" => Names(1) = PassOrder

C1_Witness ==
    /\ base = H /\ applied = <<I2, I1>>
    /\ status[1] = "returned"
    /\ Names(1) = PassOrder

\* C2: ApplyInterceptor(h, nil) returns h itself: a setup step that applies
\* the nil interceptor leaves the chain the very same value, and a call
\* through a chain built from H with nil interceptors only runs H directly,
\* with no interceptor frame and no wrapper frame on the stack.
C2_NilInterceptorIdentity ==
    /\ [][(applied' = Append(applied, NilInterceptor)) => chain' = chain]_vars
    /\ []((base = H /\ applied # << >> /\ Range(applied) = {NilInterceptor} /\ status[1] # "idle")
            => /\ target[1] = H
               /\ Len(stack[1]) <= 1
               /\ \A k \in DOMAIN stack[1] : stack[1][k].fn = "Handler.Handle" /\ stack[1][k].h = H
               /\ status[1] = "returned" => Len(log[1]) = 1 /\ log[1][1].res = result[1])

C2_Witness ==
    /\ base = H /\ applied # << >> /\ Range(applied) = {NilInterceptor}
    /\ chain = H
    /\ status[1] = "returned"
    /\ Len(log[1]) = 1

\* C3 (as stated): with a nil handler, no Handle call on the composed handler
\* ever completes normally, whatever interceptors were applied.
C3_NilHandlerFailsFast ==
    base = NilHandler => status[1] # "returned"

\* C3 (amended): ApplyInterceptor never fails at construction; with a nil
\* handler the Handle call ends in a nil dereference panic exactly when no
\* applied interceptor short-circuits, and otherwise it completes normally
\* with the error the short-circuiting interceptor synthesized.
C3_NilHandlerFailsUnlessShortCircuit ==
    (base = NilHandler /\ Over(1))
      => /\ status[1] = "panicked" <=> ShortCircuit \notin Range(applied)
         /\ status[1] = "returned" => result[1] = ErrShort
         /\ status[1] = "panicked" => result[1] = Panic

C3_Witness ==
    /\ base = NilHandler
    /\ applied # << >> /\ NilInterceptor \notin Range(applied)
    /\ status[1] = "panicked"

\* C4: ApplyInterceptor(H, NopInterceptor).Handle(ctx, req, resw) invokes H
\* exactly once, with the caller's ctx, req and resw, and returns exactly the
\* value H returned; the same holds for NopInterceptor applied repeatedly.
C4_NopTransparent ==
    (base = H /\ applied # << >> /\ Range(applied) = {NopInterceptor} /\ status[1] # "idle")
      => /\ status[1] # "panicked"
         /\ Len(log[1]) <= 1
         /\ \A k \in DOMAIN log[1] : log[1][k].ev = "H" /\ log[1][k].a = args[1]
         /\ status[1] = "returned" => Len(log[1]) = 1 /\ result[1] = log[1][1].res

C4_Witness ==
    /\ base = H /\ applied = <<NopInterceptor>>
    /\ status[1] = "returned"
    /\ result[1] = ErrHandler
    /\ Len(log[1]) = 1

\* C5: interceptedHandler.Handle calls its interceptor with the arguments it
\* received and its inner handler as next, and the caller gets exactly the
\* value the outermost interceptor returned; through a chain of pass-through
\* and no-op interceptors of any depth the value H returned reaches the
\* caller unchanged.
C5_ResultPropagated ==
    /\ \A k \in DOMAIN stack[1] :
         (stack[1][k].fn = "Handler.Handle" /\ stack[1][k].pc = "wait")
           => /\ k < Len(stack[1])
              /\ stack[1][k + 1].fn = "Interceptor.Handle"
              /\ stack[1][k + 1].i = stack[1][k].h.i
              /\ stack[1][k + 1].next = stack[1][k].h.h
              /\ stack[1][k + 1].a = stack[1][k].a
    /\ (status[1] = "returned" /\ applied # << >> /\ Last(applied).kind = "pass")
         => /\ log[1][1].ev = "enter" /\ log[1][1].a = args[1]
            /\ Last(log[1]).ev = "exit" /\ Last(log[1]).id = Last(applied).id
            /\ result[1] = Last(log[1]).res
    /\ (status[1] = "returned" /\ base = H /\ Range(applied) \subseteq {I1, I2, NopInterceptor, NilInterceptor})
         => /\ Len(HEvents(1)) = 1
            /\ result[1] = HEvents(1)[1].res

C5_Witness ==
    /\ base = H /\ Len(applied) = MaxDepth
    /\ Range(applied) \subseteq {I1, I2, NopInterceptor}
    /\ Last(applied).kind = "pass"
    /\ status[1] = "returned"
    /\ result[1] = ErrHandler

\* C6: when several callers call the same composed handler concurrently with
\* distinct requests, every frame and every observed invocation of a caller's
\* call carries that caller's own ctx, req and resw, and the value a caller
\* gets is the one its own call produced: the value of its own last
\* invocation of H, or the short-circuit error.
C6_NoCrossContamination ==
    \A t \in Callers :
      status[t] # "idle"
        => /\ target[t] = chain
           /\ \A k \in DOMAIN stack[t] : stack[t][k].a = args[t]
           /\ \A k \in DOMAIN log[t] : log[t][k].a = args[t]
           /\ \A u \in Callers : (u # t /\ status[u] # "idle") => args[u].req # args[t].req
           /\ (status[t] = "returned" /\ base = H /\ ShortCircuit \notin Range(applied))
                => HEvents(t) # << >> /\ result[t] = Last(HEvents(t)).res
           /\ (status[t] = "returned" /\ ShortCircuit \in Range(applied))
                => result[t] = ErrShort

C6_Witness ==
    /\ base = H /\ chain.kind = "intercepted"
    /\ \A t \in Callers : status[t] = "returned" /\ target[t] = chain
    /\ \E t, u \in Callers : result[t] = NoError /\ result[u] = ErrHandler

\* C7: when the outermost interceptor never calls next, a Handle call on the
\* composed handler invokes neither H nor any interceptor composed inside,
\* and the caller receives the error the interceptor synthesized; wherever a
\* short-circuiting interceptor sits in the chain, H is never invoked.
C7_ShortCircuit ==
    /\ (applied # << >> /\ Last(applied) = ShortCircuit /\ status[1] # "idle")
         => /\ log[1] = << >>
            /\ Len(stack[1]) <= 2
            /\ status[1] # "panicked"
            /\ status[1] = "returned" => result[1] = ErrShort
    /\ ShortCircuit \in Range(applied) => HEvents(1) = << >>

C7_Witness ==
    /\ base = H /\ Len(applied) > 1 /\ Last(applied) = ShortCircuit
    /\ status[1] = "returned"
    /\ result[1] = ErrShort
    /\ log[1] = << >>

\* C8: when the interceptor calls next twice with the request it received and
\* returns the second result, one Handle call on ApplyInterceptor(H, I)
\* invokes H exactly twice, both times with the caller's arguments, and
\* returns the value of the second invocation.
C8_Twice ==
    (base = H /\ applied = <<Twice>> /\ status[1] # "idle")
      => /\ Len(log[1]) <= 2
         /\ \A k \in DOMAIN log[1] : log[1][k].ev = "H" /\ log[1][k].a = args[1]
         /\ status[1] # "panicked"
         /\ status[1] = "returned" => Len(log[1]) = 2 /\ result[1] = log[1][2].res

C8_Witness ==
    /\ base = H /\ applied = <<Twice>>
    /\ status[1] = "returned"
    /\ Len(log[1]) = 2
    /\ log[1][1].res = NoError /\ log[1][2].res = ErrHandler
    /\ result[1] = ErrHandler

\* The entry a call is expected to record.
StatusOf(op) ==
    IF op = "Skip" THEN StatusSkipped ELSE IF op = "Fail" THEN StatusFailed ELSE StatusPassed

\* C9: every Skip, Fail or Pass call appends exactly one entry: after n calls
\* Entries has n entries, the k-th entry is the one of the k-th call, and no
\* step removes or changes an entry recorded earlier.
C9_OneEntryPerCall ==
    /\ [](/\ Len(Entries) = Len(calls)
          /\ \A k \in DOMAIN calls :
               Entries[k] = [Status |-> StatusOf(calls[k].op), Output |-> calls[k].out])
    /\ [][/\ Len(Entries') >= Len(Entries)
          /\ \A k \in DOMAIN Entries : Entries'[k] = Entries[k]]_vars

C9_Witness ==
    /\ Len(Entries) = MaxEntries
    /\ Len(behaviors) > 1
    /\ {Entries[k].Status : k \in DOMAIN Entries} = {StatusSkipped, StatusFailed, StatusPassed}

\* C10: starting from Failed = false and Skipped = false, Failed is true iff
\* Fail was called at least once and Skipped is true iff Skip was called at
\* least once; no step resets a flag and a Pass call changes neither flag.
C10_StickyFlags ==
    /\ [](/\ Failed <=> \E k \in DOMAIN calls : calls[k].op = "Fail"
          /\ Skipped <=> \E k \in DOMAIN calls : calls[k].op = "Skip")
    /\ [][/\ Failed => Failed'
          /\ Skipped => Skipped'
          /\ (Len(calls') > Len(calls) /\ Last(calls').op = "Pass")
               => (Failed' = Failed /\ Skipped' = Skipped)]_vars

C10_Witness ==
    /\ Len(calls) = MaxEntries
    /\ calls[1].op = "Fail"
    /\ calls[2].op = "Skip"
    /\ Last(calls).op = "Pass"
    /\ Failed /\ Skipped
====
